---- MODULE Spec2Model ----
(***************************************************************************)
(* Model of the quiz generator's POST /generate handler (src/main.py).     *)
(*                                                                         *)
(* Text (Python str) is a sequence of one-character strings, so that the   *)
(* brace scan, the slice, the JSON parse, int() and the f-string           *)
(* renderings are computed as the code computes them.  A JSON value (the   *)
(* result of json.loads / request.get_json) is a record                    *)
(*     [t, n, s, kids]                                                     *)
(* with t in {"null","bool","int","str","arr","obj","pair"}: n the number  *)
(* (or 0/1 for a bool), s the characters of a string (or of a pair's key), *)
(* kids the elements of an array, the pairs of an object, or the one value *)
(* of a pair.                                                              *)
(***************************************************************************)
EXTENDS Integers, Sequences, FiniteSets, TLC

\* ------------------------------------------------------------------------
\* Bounds of the model and constants of the program
\* ------------------------------------------------------------------------

\* Longest free text over {x, '{', '}'} the generation service returns.
MaxFluff == 3
\* Longest quiz sequence among the generated QuizDocuments.
MaxItems == 2
\* Largest num_questions a request carries.
MaxNum == 22
\* min(num_questions, 20): the cap on the question count.
QuestionCap == 20
\* data.get('num_questions', 10): the default question count.
DefaultNumQuestions == 10

\* ------------------------------------------------------------------------
\* Python str operations
\* ------------------------------------------------------------------------

Digits == <<"0", "1", "2", "3", "4", "5", "6", "7", "8", "9">>

IsDigit(c) == \E d \in 1..10 : Digits[d] = c

DigitVal(c) == (CHOOSE d \in 1..10 : Digits[d] = c) - 1

\* The whitespace json and int() skip.
IsSpace(c) == c \in {" ", "\n", "\t", "\r"}

RECURSIVE NatStr(_)
\* str(n) for n >= 0: the decimal digits, most significant first.
NatStr(n) ==
    IF n < 10 THEN <<Digits[n + 1]>>
    ELSE NatStr(n \div 10) \o <<Digits[(n % 10) + 1]>>

\* str(n) for an int.
IntStr(n) == IF n < 0 THEN <<"-">> \o NatStr(-n) ELSE NatStr(n)

RECURSIVE Join(_, _)
\* sep.join(parts)
Join(sep, parts) ==
    IF parts = <<>> THEN <<>>
    ELSE IF Len(parts) = 1 THEN parts[1]
    ELSE parts[1] \o sep \o Join(sep, Tail(parts))

\* text.find(c): the 0-based index of the first c, or -1.
Find(text, c) ==
    IF \E i \in 1..Len(text) : text[i] = c
    THEN (CHOOSE i \in 1..Len(text) :
              text[i] = c /\ \A j \in 1..(i - 1) : text[j] # c) - 1
    ELSE -1

\* text.rfind(c): the 0-based index of the last c, or -1.
RFind(text, c) ==
    IF \E i \in 1..Len(text) : text[i] = c
    THEN (CHOOSE i \in 1..Len(text) :
              text[i] = c /\ \A j \in (i + 1)..Len(text) : text[j] # c) - 1
    ELSE -1

\* A slice bound as Python normalises it: negative counts from the end,
\* then it is clamped to 0..len.
SliceIndex(len, i) ==
    LET k == IF i < 0 THEN i + len ELSE i
    IN  IF k < 0 THEN 0 ELSE IF k > len THEN len ELSE k

\* text[start:end]
Slice(text, start, end) ==
    SubSeq(text, SliceIndex(Len(text), start) + 1, SliceIndex(Len(text), end))

\* text.strip() bounds: first and last non-space positions (1-based).
Strip(text) ==
    LET keep == {i \in 1..Len(text) : ~IsSpace(text[i])}
    IN  IF keep = {} THEN <<>>
        ELSE SubSeq(text,
                    CHOOSE i \in keep : \A j \in keep : i <= j,
                    CHOOSE i \in keep : \A j \in keep : i >= j)

RECURSIVE DigitsVal(_)
\* The number a non-empty run of digits denotes.
DigitsVal(ds) ==
    IF Len(ds) = 1 THEN DigitVal(ds[1])
    ELSE 10 * DigitsVal(SubSeq(ds, 1, Len(ds) - 1)) + DigitVal(ds[Len(ds)])

AllDigits(ds) == ds # <<>> /\ \A i \in 1..Len(ds) : IsDigit(ds[i])

\* int(text) for a str: surrounding whitespace is dropped, one sign is
\* allowed, the rest must be decimal digits; anything else is a ValueError.
IntOfStr(text) ==
    LET body == Strip(text)
        signed == body # <<>> /\ body[1] \in {"+", "-"}
        ds == IF signed THEN Tail(body) ELSE body
    IN  IF AllDigits(ds)
        THEN [ok |-> TRUE,
              n |-> IF signed /\ body[1] = "-" THEN -DigitsVal(ds)
                    ELSE DigitsVal(ds)]
        ELSE [ok |-> FALSE, n |-> 0]

\* ------------------------------------------------------------------------
\* JSON values
\* ------------------------------------------------------------------------

JNull == [t |-> "null", n |-> 0, s |-> <<>>, kids |-> <<>>]
JBool(b) == [t |-> "bool", n |-> IF b THEN 1 ELSE 0, s |-> <<>>, kids |-> <<>>]
JInt(n) == [t |-> "int", n |-> n, s |-> <<>>, kids |-> <<>>]
JStr(s) == [t |-> "str", n |-> 0, s |-> s, kids |-> <<>>]
JArr(vs) == [t |-> "arr", n |-> 0, s |-> <<>>, kids |-> vs]
JPair(k, v) == [t |-> "pair", n |-> 0, s |-> k, kids |-> <<v>>]
JObj(ps) == [t |-> "obj", n |-> 0, s |-> <<>>, kids |-> ps]

\* key in d
HasKey(d, key) == \E i \in 1..Len(d.kids) : d.kids[i].s = key

\* d[key], for a key that is in d
Lookup(d, key) ==
    d.kids[CHOOSE i \in 1..Len(d.kids) : d.kids[i].s = key].kids[1]

\* d.get(key, default)
DictGet(d, key, default) == IF HasKey(d, key) THEN Lookup(d, key) ELSE default

\* d[key] = v as json.loads builds a dict: a repeated key keeps its first
\* position and takes the last value.
DictSet(ps, key, v) ==
    IF \E i \in 1..Len(ps) : ps[i].s = key
    THEN [i \in 1..Len(ps) |-> IF ps[i].s = key THEN JPair(key, v) ELSE ps[i]]
    ELSE Append(ps, JPair(key, v))

\* ------------------------------------------------------------------------
\* json.loads
\* ------------------------------------------------------------------------

\* A failed parse: json.loads raises JSONDecodeError.
Bad == [ok |-> FALSE, val |-> JNull, pos |-> 0]

Good(v, p) == [ok |-> TRUE, val |-> v, pos |-> p]

\* The character at 1-based position i, or "" past the end (s[i:i+1]).
At(t, i) == IF i >= 1 /\ i <= Len(t) THEN t[i] ELSE ""

RECURSIVE SkipWs(_, _)
\* The first position at or after i that holds no whitespace.
SkipWs(t, i) == IF IsSpace(At(t, i)) THEN SkipWs(t, i + 1) ELSE i

\* Whether t holds the characters of word from position i on.
StartsWith(t, i, word) ==
    /\ i + Len(word) - 1 <= Len(t)
    /\ \A k \in 1..Len(word) : t[i + k - 1] = word[k]

\* The character an escape sequence \c stands for, "" when the sequence
\* is none of the modelled ones (\b and \uXXXX lie outside the alphabet).
Unescape(c) ==
    CASE c = "\"" -> "\""
      [] c = "\\" -> "\\"
      [] c = "/" -> "/"
      [] c = "n" -> "\n"
      [] c = "t" -> "\t"
      [] c = "r" -> "\r"
      [] c = "f" -> "\f"
      [] OTHER -> ""

RECURSIVE ScanString(_, _, _)
\* scanstring, from the position after the opening quote: the characters
\* up to the closing quote.  A raw control character or an unterminated
\* string is an error.
ScanString(t, i, acc) ==
    LET c == At(t, i)
    IN  IF c = "" \/ c \in {"\n", "\t", "\r", "\f"} THEN Bad
        ELSE IF c = "\"" THEN Good(JStr(acc), i + 1)
        ELSE IF c = "\\"
             THEN IF Unescape(At(t, i + 1)) = "" THEN Bad
                  ELSE ScanString(t, i + 2, Append(acc, Unescape(At(t, i + 1))))
        ELSE ScanString(t, i + 1, Append(acc, c))

RECURSIVE DigitRun(_, _)
\* The position after the run of digits that starts at i.
DigitRun(t, i) == IF IsDigit(At(t, i)) THEN DigitRun(t, i + 1) ELSE i

\* The number pattern -?(0|[1-9][0-9]*) at position i (the modelled
\* alphabet has no fraction or exponent).
ScanNumber(t, i) ==
    LET neg == At(t, i) = "-"
        d == IF neg THEN i + 1 ELSE i
        e == IF At(t, d) = "0" THEN d + 1 ELSE DigitRun(t, d)
    IN  IF e = d THEN Bad
        ELSE Good(JInt(IF neg THEN -DigitsVal(SubSeq(t, d, e - 1))
                       ELSE DigitsVal(SubSeq(t, d, e - 1))), e)

RECURSIVE ScanOnce(_, _)
RECURSIVE ScanMembers(_, _, _)
RECURSIVE ScanElements(_, _, _)

\* JSONObject's loop, at the opening quote of a key: key, ':', value, then
\* ',' and another member, or '}'.
ScanMembers(t, i, pairs) ==
    IF At(t, i) # "\"" THEN Bad
    ELSE LET key == ScanString(t, i + 1, <<>>)
         IN  IF ~key.ok THEN Bad
             ELSE LET colon == SkipWs(t, key.pos)
                  IN  IF At(t, colon) # ":" THEN Bad
                      ELSE LET v == ScanOnce(t, SkipWs(t, colon + 1))
                           IN  IF ~v.ok THEN Bad
                               ELSE LET next == SkipWs(t, v.pos)
                                        got == DictSet(pairs, key.val.s, v.val)
                                    IN  IF At(t, next) = "}"
                                        THEN Good(JObj(got), next + 1)
                                        ELSE IF At(t, next) = ","
                                        THEN ScanMembers(t, SkipWs(t, next + 1), got)
                                        ELSE Bad

\* JSONArray's loop, at the start of an element: value, then ',' and
\* another element, or ']'.
ScanElements(t, i, vals) ==
    LET v == ScanOnce(t, i)
    IN  IF ~v.ok THEN Bad
        ELSE LET next == SkipWs(t, v.pos)
             IN  IF At(t, next) = "]"
                 THEN Good(JArr(Append(vals, v.val)), next + 1)
                 ELSE IF At(t, next) = ","
                 THEN ScanElements(t, SkipWs(t, next + 1), Append(vals, v.val))
                 ELSE Bad

\* scan_once: the JSON value that starts at position i.
ScanOnce(t, i) ==
    LET c == At(t, i)
    IN  IF c = "\"" THEN ScanString(t, i + 1, <<>>)
        ELSE IF c = "{"
             THEN LET m == SkipWs(t, i + 1)
                  IN  IF At(t, m) = "}" THEN Good(JObj(<<>>), m + 1)
                      ELSE ScanMembers(t, m, <<>>)
        ELSE IF c = "["
             THEN LET m == SkipWs(t, i + 1)
                  IN  IF At(t, m) = "]" THEN Good(JArr(<<>>), m + 1)
                      ELSE ScanElements(t, m, <<>>)
        ELSE IF StartsWith(t, i, <<"n", "u", "l", "l">>) THEN Good(JNull, i + 4)
        ELSE IF StartsWith(t, i, <<"t", "r", "u", "e">>) THEN Good(JBool(TRUE), i + 4)
        ELSE IF StartsWith(t, i, <<"f", "a", "l", "s", "e">>)
             THEN Good(JBool(FALSE), i + 5)
        ELSE ScanNumber(t, i)

\* json.loads(t): one value with nothing but whitespace around it.
JsonLoads(t) ==
    LET v == ScanOnce(t, SkipWs(t, 1))
    IN  IF v.ok /\ SkipWs(t, v.pos) = Len(t) + 1 THEN v ELSE Bad

\* ------------------------------------------------------------------------
\* The program's string literals
\* ------------------------------------------------------------------------

\* 'quiz'
KeyQuiz ==
    <<"q", "u", "i", "z">>

\* 'answers'
KeyAnswers ==
    <<"a", "n", "s", "w", "e", "r", "s">>

\* 'id'
KeyId ==
    <<"i", "d">>

\* 'type'
KeyType ==
    <<"t", "y", "p", "e">>

\* 'question'
KeyQuestion ==
    <<"q", "u", "e", "s", "t", "i", "o", "n">>

\* 'options'
KeyOptions ==
    <<"o", "p", "t", "i", "o", "n", "s">>

\* 'correct_answer'
KeyCorrectAnswer ==
    <<"c", "o", "r", "r", "e", "c", "t", "_", "a", "n", "s", "w", "e", "r">>

\* 'source_text'
KeySourceText ==
    <<"s", "o", "u", "r", "c", "e", "_", "t", "e", "x", "t">>

\* 'num_questions'
KeyNumQuestions ==
    <<"n", "u", "m", "_", "q", "u", "e", "s", "t", "i", "o", "n", "s">>

\* 'MC'
TypeMC ==
    <<"M", "C">>

\* "Generated Quiz\n\n---\n"
DocHeader ==
    <<"G", "e", "n", "e", "r", "a", "t", "e", "d", " ", "Q", "u", "i", "z",
      "\n", "\n", "-", "-", "-", "\n">>

\* "--- QUESTIONS ---\n"
QuestionsHeader ==
    <<"-", "-", "-", " ", "Q", "U", "E", "S", "T", "I", "O", "N", "S", " ",
      "-", "-", "-", "\n">>

\* "\n\n--- ANSWER KEY ---\n"
AnswerKeyHeader ==
    <<"\n", "\n", "-", "-", "-", " ", "A", "N", "S", "W", "E", "R", " ",
      "K", "E", "Y", " ", "-", "-", "-", "\n">>

\* "    - "
OptionMarker ==
    <<" ", " ", " ", " ", "-", " ">>

\* "AI Quiz - "
TitlePrefix ==
    <<"A", "I", " ", "Q", "u", "i", "z", " ", "-", " ">>

\* " Questions"
TitleSuffix ==
    <<" ", "Q", "u", "e", "s", "t", "i", "o", "n", "s">>

\* "https://docs.google.com/document/d/"
UrlPrefix ==
    <<"h", "t", "t", "p", "s", ":", "/", "/", "d", "o", "c", "s", ".", "g",
      "o", "o", "g", "l", "e", ".", "c", "o", "m", "/", "d", "o", "c", "u",
      "m", "e", "n", "t", "/", "d", "/">>

\* "/edit"
UrlSuffix ==
    <<"/", "e", "d", "i", "t">>

\* ------------------------------------------------------------------------
\* Python operations on parsed values
\* ------------------------------------------------------------------------

RECURSIVE PyRepr(_)
RECURSIVE ReprAll(_)

\* repr(v) of each element of vs.  A pair renders as key: value.
ReprAll(vs) ==
    IF vs = <<>> THEN <<>> ELSE <<PyRepr(Head(vs))>> \o ReprAll(Tail(vs))

\* repr(v).  The strings of the modelled alphabet hold no quote, backslash
\* or control character, so repr of a str is the text in single quotes.
PyRepr(v) ==
    CASE v.t = "null" -> <<"N", "o", "n", "e">>
      [] v.t = "bool" -> IF v.n = 1 THEN <<"T", "r", "u", "e">>
                         ELSE <<"F", "a", "l", "s", "e">>
      [] v.t = "int" -> IntStr(v.n)
      [] v.t = "str" -> <<"'">> \o v.s \o <<"'">>
      [] v.t = "arr" -> <<"[">> \o Join(<<",", " ">>, ReprAll(v.kids)) \o <<"]">>
      [] v.t = "obj" -> <<"{">> \o Join(<<",", " ">>, ReprAll(v.kids)) \o <<"}">>
      [] v.t = "pair" -> <<"'">> \o v.s \o <<"'", ":", " ">> \o PyRepr(v.kids[1])

\* str(v), which is what an f-string field and str.format render: the text
\* itself for a str, repr for everything else.
PyStr(v) == IF v.t = "str" THEN v.s ELSE PyRepr(v)

\* A raised exception.
Raised == [ok |-> FALSE, val |-> JNull]

Returned(v) == [ok |-> TRUE, val |-> v]

\* v[key] for a str key: the value under the key of a dict; KeyError when
\* the key is missing, TypeError when v is no dict.
Subscript(v, key) ==
    IF v.t = "obj" /\ HasKey(v, key) THEN Returned(Lookup(v, key)) ELSE Raised

\* The elements `for x in v` visits, as an array: the elements of a list,
\* the keys of a dict, the characters of a str; TypeError otherwise.
Iterate(v) ==
    CASE v.t = "arr" -> Returned(v)
      [] v.t = "obj" ->
            Returned(JArr([i \in 1..Len(v.kids) |-> JStr(v.kids[i].s)]))
      [] v.t = "str" -> Returned(JArr([i \in 1..Len(v.s) |-> JStr(<<v.s[i]>>)]))
      [] OTHER -> Raised

\* int(v): an int as it is, a bool as 0/1, a str parsed; TypeError for
\* None, a list or a dict, ValueError for a str that is no integer.
PyInt(v) ==
    CASE v.t \in {"int", "bool"} -> [ok |-> TRUE, n |-> v.n]
      [] v.t = "str" -> IntOfStr(v.s)
      [] OTHER -> [ok |-> FALSE, n |-> 0]

\* min(a, b)
Min(a, b) == IF b < a THEN b ELSE a

\* ------------------------------------------------------------------------
\* Step 4 of generate: the document text
\* ------------------------------------------------------------------------

\* A text result, or a raised exception.
TextRaised == [ok |-> FALSE, text |-> <<>>]

TextOf(t) == [ok |-> TRUE, text |-> t]

\* [f"    - {opt}" for opt in options]
OptionLines(opts) == [i \in 1..Len(opts) |-> OptionMarker \o PyStr(opts[i])]

\* Variant of QuestionText: the options of an item of any type are listed.
QuestionTextOptionsOfAnyType(item) ==
    LET id == Subscript(item, KeyId)
        type == Subscript(item, KeyType)
        question == Subscript(item, KeyQuestion)
    IN  IF ~id.ok \/ ~type.ok \/ ~question.ok THEN TextRaised
        ELSE LET q_text == PyStr(id.val) \o <<".", " ", "(">> \o PyStr(type.val)
                             \o <<")", " ">> \o PyStr(question.val)
             IN  IF HasKey(item, KeyOptions)
                 THEN LET opts == Iterate(Lookup(item, KeyOptions))
                      IN  IF ~opts.ok THEN TextRaised
                          ELSE TextOf(q_text \o <<"\n">>
                                      \o Join(<<"\n">>, OptionLines(opts.val.kids))
                                      \o <<"\n", "\n">>)
                 ELSE TextOf(q_text \o <<"\n", "\n">>)

\* The body of the questions loop for one item: the question line, the
\* option lines of an MC item that has the key 'options', and "\n\n".
QuestionText(item) ==
    LET id == Subscript(item, KeyId)
        type == Subscript(item, KeyType)
        question == Subscript(item, KeyQuestion)
    IN  IF ~id.ok \/ ~type.ok \/ ~question.ok THEN TextRaised
        ELSE LET q_text == PyStr(id.val) \o <<".", " ", "(">> \o PyStr(type.val)
                             \o <<")", " ">> \o PyStr(question.val)
             IN  IF type.val = JStr(TypeMC) /\ HasKey(item, KeyOptions)
                 THEN LET opts == Iterate(Lookup(item, KeyOptions))
                      IN  IF ~opts.ok THEN TextRaised
                          ELSE TextOf(q_text \o <<"\n">>
                                      \o Join(<<"\n">>, OptionLines(opts.val.kids))
                                      \o <<"\n", "\n">>)
                 ELSE TextOf(q_text \o <<"\n", "\n">>)

\* The body of the answers loop for one item.
AnswerText(item) ==
    LET id == Subscript(item, KeyId)
        answer == Subscript(item, KeyCorrectAnswer)
    IN  IF ~id.ok \/ ~answer.ok THEN TextRaised
        ELSE TextOf(PyStr(id.val) \o <<".", " ">> \o PyStr(answer.val) \o <<"\n">>)

RECURSIVE QuestionsText(_)
\* The questions loop over the items, in their order.
QuestionsText(items) ==
    IF items = <<>> THEN TextOf(<<>>)
    ELSE LET first == QuestionText(Head(items))
         IN  IF ~first.ok THEN TextRaised
             ELSE LET rest == QuestionsText(Tail(items))
                  IN  IF ~rest.ok THEN TextRaised
                      ELSE TextOf(first.text \o rest.text)

RECURSIVE AnswersText(_)
\* The answers loop over the items, in their order.
AnswersText(items) ==
    IF items = <<>> THEN TextOf(<<>>)
    ELSE LET first == AnswerText(Head(items))
         IN  IF ~first.ok THEN TextRaised
             ELSE LET rest == AnswersText(Tail(items))
                  IN  IF ~rest.ok THEN TextRaised
                      ELSE TextOf(first.text \o rest.text)

\* Variant of FormatDocument: quiz_data['quiz'] and quiz_data['answers'],
\* which raise when a key is missing.
FormatDocumentRequiringKeys(quiz_data) ==
    LET quiz == Subscript(quiz_data, KeyQuiz)
        answers == Subscript(quiz_data, KeyAnswers)
    IN  IF ~quiz.ok \/ ~answers.ok THEN TextRaised
        ELSE IF ~Iterate(quiz.val).ok \/ ~Iterate(answers.val).ok THEN TextRaised
        ELSE LET questions == QuestionsText(Iterate(quiz.val).val.kids)
                 key == AnswersText(Iterate(answers.val).val.kids)
             IN  IF ~questions.ok \/ ~key.ok THEN TextRaised
                 ELSE TextOf(DocHeader \o QuestionsHeader \o questions.text
                             \o AnswerKeyHeader \o key.text)

\* doc_content for a parsed quiz_data; an exception of either loop leaves
\* the handler (nothing catches it at this step).
FormatDocument(quiz_data) ==
    IF quiz_data.t # "obj" THEN TextRaised
    ELSE LET quiz == Iterate(DictGet(quiz_data, KeyQuiz, JArr(<<>>)))
             answers == Iterate(DictGet(quiz_data, KeyAnswers, JArr(<<>>)))
         IN  IF ~quiz.ok THEN TextRaised
             ELSE LET questions == QuestionsText(quiz.val.kids)
                  IN  IF ~questions.ok \/ ~answers.ok THEN TextRaised
                      ELSE LET key == AnswersText(answers.val.kids)
                           IN  IF ~key.ok THEN TextRaised
                               ELSE TextOf(DocHeader \o QuestionsHeader
                                           \o questions.text
                                           \o AnswerKeyHeader \o key.text)

\* Variant of JsonSpan: a text without '{' is taken whole.
JsonSpanOrWholeText(text) ==
    IF Find(text, "{") = -1 THEN text
    ELSE Slice(text, Find(text, "{"), RFind(text, "}") + 1)

\* json_string of step 3: from the first '{' to the last '}' of the text.
JsonSpan(text) == Slice(text, Find(text, "{"), RFind(text, "}") + 1)

\* ------------------------------------------------------------------------
\* The inputs: request bodies and the texts the generation service returns
\* ------------------------------------------------------------------------

RECURSIVE Dumps(_)
RECURSIVE DumpsAll(_)

DumpsAll(vs) ==
    IF vs = <<>> THEN <<>> ELSE <<Dumps(Head(vs))>> \o DumpsAll(Tail(vs))

\* The JSON text of a value (strings of the modelled alphabet need no
\* escaping).
Dumps(v) ==
    CASE v.t = "null" -> <<"n", "u", "l", "l">>
      [] v.t = "bool" -> IF v.n = 1 THEN <<"t", "r", "u", "e">>
                         ELSE <<"f", "a", "l", "s", "e">>
      [] v.t = "int" -> IntStr(v.n)
      [] v.t = "str" -> <<"\"">> \o v.s \o <<"\"">>
      [] v.t = "arr" -> <<"[">> \o Join(<<",", " ">>, DumpsAll(v.kids)) \o <<"]">>
      [] v.t = "obj" -> <<"{">> \o Join(<<",", " ">>, DumpsAll(v.kids)) \o <<"}">>
      [] v.t = "pair" -> <<"\"">> \o v.s \o <<"\"", ":", " ">> \o Dumps(v.kids[1])

\* The sequences over S of length at most n.
SeqsUpTo(S, n) == UNION {[1..k -> S] : k \in 0..n}

\* The options of the example in the prompt.
TwoOptions == JArr(<<JStr(<<"a">>), JStr(<<"b">>)>>)

\* A QuizItem without options.
QuizItem(id, type) ==
    JObj(<<JPair(KeyId, JInt(id)), JPair(KeyType, JStr(type)),
           JPair(KeyQuestion, JStr(<<"q", "?">>))>>)

\* A QuizItem with an options value.
QuizItemWith(id, type, options) ==
    JObj(<<JPair(KeyId, JInt(id)), JPair(KeyType, JStr(type)),
           JPair(KeyQuestion, JStr(<<"q", "?">>)), JPair(KeyOptions, options)>>)

\* An AnswerItem.
AnswerItem(id) ==
    JObj(<<JPair(KeyId, JInt(id)), JPair(KeyCorrectAnswer, JStr(<<"a">>))>>)

\* A QuizDocument.
QuizDocument(quiz, answers) ==
    JObj(<<JPair(KeyQuiz, JArr(quiz)), JPair(KeyAnswers, JArr(answers))>>)

\* The kinds of structurally valid item: type, and whether it has options.
ItemKinds ==
    {[type |-> TypeMC, options |-> TRUE], [type |-> TypeMC, options |-> FALSE],
     [type |-> <<"T", "F">>, options |-> TRUE],
     [type |-> <<"S", "A">>, options |-> FALSE]}

\* The item of a kind with an id.
ItemOfKind(kind, id) ==
    IF kind.options THEN QuizItemWith(id, kind.type, TwoOptions)
    ELSE QuizItem(id, kind.type)

\* The structurally valid quiz sequences: every sequence of kinds up to
\* MaxItems, with ids ascending or descending.
ValidQuizzes ==
    {[i \in 1..Len(ks) |-> ItemOfKind(ks[i], IF up THEN i ELSE Len(ks) + 1 - i)] :
        ks \in SeqsUpTo(ItemKinds, MaxItems), up \in BOOLEAN}

\* The answers for ids n, n-1, .. 1: the reverse of an ascending quiz.
AnswersDown(n) == [i \in 1..n |-> AnswerItem(n + 1 - i)]

\* The structurally valid QuizDocuments the generation service returns.
ValidDocuments ==
    {QuizDocument(q, AnswersDown(Len(q))) : q \in ValidQuizzes}
    \cup {QuizDocument(<<QuizItem(1, TypeMC)>>, a) :
            a \in {<<>>, <<AnswerItem(7)>>, <<AnswerItem(2), AnswerItem(2)>>}}
    \cup {QuizDocument(<<QuizItemWith(1, TypeMC, JArr(<<>>))>>, <<AnswerItem(1)>>)}

\* JSON objects that are no valid QuizDocument: keys missing, items
\* missing fields, values of other types.
OtherDocuments ==
    {JObj(<<>>),
     JObj(<<JPair(KeyQuiz, JArr(<<QuizItem(1, TypeMC)>>))>>),
     JObj(<<JPair(KeyAnswers, JArr(<<AnswerItem(1)>>))>>),
     JObj(<<JPair(KeyAnswers, JArr(<<JObj(<<>>)>>))>>),
     JObj(<<JPair(KeyQuiz, JArr(<<JObj(<<>>)>>))>>),
     QuizDocument(<<JObj(<<>>)>>, <<>>),
     QuizDocument(<<JObj(<<JPair(KeyId, JInt(1))>>)>>, <<>>),
     QuizDocument(<<JObj(<<JPair(KeyId, JInt(1)),
                           JPair(KeyType, JStr(TypeMC))>>)>>, <<>>),
     QuizDocument(<<JObj(<<JPair(KeyType, JStr(TypeMC)),
                           JPair(KeyQuestion, JStr(<<"q">>))>>)>>, <<>>),
     QuizDocument(<<JInt(1)>>, <<>>),
     QuizDocument(<<QuizItemWith(1, TypeMC, JNull)>>, <<AnswerItem(1)>>),
     QuizDocument(<<QuizItemWith(1, TypeMC, JStr(<<"a", "b">>))>>, <<>>),
     QuizDocument(<<QuizItemWith(1, <<"T", "F">>, JNull)>>, <<>>),
     QuizDocument(<<QuizItem(1, <<"S", "A">>)>>,
                  <<JObj(<<JPair(KeyId, JInt(1))>>)>>),
     QuizDocument(<<>>, <<JStr(<<"a">>)>>),
     JObj(<<JPair(KeyQuiz, JNull), JPair(KeyAnswers, JArr(<<>>))>>),
     JObj(<<JPair(KeyQuiz, JInt(5)), JPair(KeyAnswers, JArr(<<>>))>>),
     JObj(<<JPair(KeyQuiz, JStr(<<>>)), JPair(KeyAnswers, JArr(<<>>))>>),
     JObj(<<JPair(KeyQuiz, JStr(<<"a">>)), JPair(KeyAnswers, JArr(<<>>))>>),
     JObj(<<JPair(KeyQuiz, JObj(<<>>)), JPair(KeyAnswers, JObj(<<>>))>>),
     JObj(<<JPair(KeyQuiz, JArr(<<>>)), JPair(KeyAnswers, JNull)>>)}

\* Documents the service wraps in prose.
WrappedDocuments ==
    {QuizDocument(<<>>, <<>>),
     QuizDocument(<<QuizItemWith(2, TypeMC, TwoOptions), QuizItem(1, <<"T", "F">>)>>,
                  <<AnswerItem(2), AnswerItem(1)>>)}

\* What the service may write before and after the JSON object.
Wrappings ==
    {[before |-> <<"H", "e", "r", "e", ":", " ">>, after |-> <<" ", "o", "k">>],
     [before |-> <<"x", ":", "\n">>, after |-> <<"\n", "x">>],
     [before |-> <<>>, after |-> <<" ", "}">>],
     [before |-> <<"{", " ">>, after |-> <<>>],
     [before |-> <<"}", " ">>, after |-> <<"\n">>]}

\* Free text without JSON: every text over x, '{' and '}' up to MaxFluff.
BraceTexts == SeqsUpTo({"x", "{", "}"}, MaxFluff)

\* Texts that are JSON but hold no brace.
BraceFreeJson == {Dumps(v) : v \in {JInt(7), JNull, JArr(<<>>), JStr(<<"x">>)}}

\* A JSON text cut short.
Truncated(text) == SubSeq(text, 1, Len(text) - 1)

\* response.text: the texts generate_content returns.
ModelOutputs ==
    BraceTexts
    \cup BraceFreeJson
    \cup {Dumps(d) : d \in ValidDocuments \cup OtherDocuments}
    \cup {w.before \o Dumps(d) \o w.after : w \in Wrappings, d \in WrappedDocuments}
    \cup {Truncated(Dumps(d)) : d \in WrappedDocuments}

\* The integers tried as num_questions: around 0 and around the cap.
IntInputs == (-1..1) \cup ((QuestionCap - 1)..MaxNum)

\* The values of "num_questions" in a request body: numbers, the strings
\* the page's form sends, and values int() rejects.
NumQuestionsInputs ==
    {JInt(n) : n \in IntInputs}
    \cup {JStr(IntStr(n)) : n \in {-1, QuestionCap + 1}}
    \cup {JStr(<<" ", "7", " ">>), JStr(<<"+", "3">>), JStr(<<"a", "b", "c">>),
          JStr(<<>>), JStr(<<"2", "x">>), JStr(<<"-">>),
          JNull, JBool(TRUE), JArr(<<>>), JObj(<<>>)}

\* The values of "source_text" in a request body.
SourceTextInputs == {JStr(<<"s">>), JInt(4)}

\* The JSON objects a request carries: each field present or missing.
ObjectBodies ==
    {JObj(<<>>),
     JObj(<<JPair(KeyNumQuestions, JInt(QuestionCap + 1))>>),
     JObj(<<JPair(KeyNumQuestions, JNull)>>)}
    \cup {JObj(<<JPair(KeySourceText, s)>>) : s \in SourceTextInputs}
    \cup {JObj(<<JPair(KeySourceText, JStr(<<"s">>)), JPair(KeyNumQuestions, n)>>) :
            n \in NumQuestionsInputs}

\* The request bodies: json is FALSE when the body is no JSON at all, and
\* request.get_json() raises.
RequestBodies ==
    {[json |-> FALSE, data |-> JNull]}
    \cup {[json |-> TRUE, data |-> d] :
            d \in ObjectBodies \cup {JNull, JArr(<<>>), JStr(<<"s">>), JInt(5)}}

\* ------------------------------------------------------------------------
\* The handler of POST /generate, one request
\* ------------------------------------------------------------------------

VARIABLES
    gemini_client,   \* "Client" when genai.Client() succeeded at start, else "None"
    pc,              \* where the handler stands
    body,            \* the request body
    source_text,     \* local source_text (a JSON value)
    num_questions,   \* local num_questions (an int)
    prompt,          \* the two fields str.format filled into the template
    response_text,   \* response.text
    quiz_data,       \* the parsed quiz_data
    doc_content,     \* the formatted document text
    doc_id,          \* the documentId documents.create returned
    calls,           \* the calls made to external services, in order
    documents,       \* the documents held by the document service
    raised,          \* the step whose exception ended the request, "" if none
    http             \* the HTTP response of the request

vars ==
    <<gemini_client, pc, body, source_text, num_questions, prompt, response_text,
      quiz_data, doc_content, doc_id, calls, documents, raised, http>>

\* The error messages of the handler's JSON error bodies.
ErrClient == "Gemini Client not initialized. Check API Key configuration."

ErrInput == "Invalid input data."

ErrGeneration ==
    "Failed to generate structured quiz from AI. Try adjusting the source text."

ErrDocsHttp ==
    "Failed to create Google Doc. Check Cloud Run permissions. Error: "

ErrDocsExport == "An unexpected error occurred during Docs export."

\* No response yet.
NoResponse ==
    [status |-> 0, json |-> FALSE, error |-> "", detail |-> 0,
     success |-> FALSE, doc_url |-> <<>>]

\* jsonify({"error": msg}), status
JsonError(status, msg, detail) ==
    [status |-> status, json |-> TRUE, error |-> msg, detail |-> detail,
     success |-> FALSE, doc_url |-> <<>>]

\* jsonify({"success": True, "doc_url": url}), with the default status 200
JsonSuccess(url) ==
    [status |-> 200, json |-> TRUE, error |-> "", detail |-> 0,
     success |-> TRUE, doc_url |-> url]

\* An exception that leaves generate: Flask answers 500 with its own
\* Internal Server Error page, which is no JSON and has no "error" field.
UnhandledError ==
    [status |-> 500, json |-> FALSE, error |-> "", detail |-> 0,
     success |-> FALSE, doc_url |-> <<>>]

\* Variant of ParseInput: a body without source_text or num_questions is
\* rejected instead of defaulted.
ParseInputRequiringFields(b) ==
    IF ~b.json \/ b.data.t # "obj"
       \/ ~HasKey(b.data, KeySourceText) \/ ~HasKey(b.data, KeyNumQuestions)
    THEN [ok |-> FALSE, source_text |-> JNull, num_questions |-> 0]
    ELSE LET n == PyInt(Lookup(b.data, KeyNumQuestions))
         IN  [ok |-> n.ok,
              source_text |-> Lookup(b.data, KeySourceText),
              num_questions |-> n.n]

\* The try block of lines 175-180 on a body: data.get on anything but a
\* dict, and int() of a bad value, raise.
ParseInput(b) ==
    IF ~b.json \/ b.data.t # "obj"
    THEN [ok |-> FALSE, source_text |-> JNull, num_questions |-> 0]
    ELSE LET n == PyInt(DictGet(b.data, KeyNumQuestions, JInt(DefaultNumQuestions)))
         IN  [ok |-> n.ok,
              source_text |-> DictGet(b.data, KeySourceText, JStr(<<>>)),
              num_questions |-> n.n]

\* Variant of CappedCount: the count is also raised to 1.
CappedCountAtLeastOne(n) == IF Min(n, QuestionCap) < 1 THEN 1 ELSE Min(n, QuestionCap)

\* min(num_questions, 20), as passed to the prompt and to the title.
CappedCount(n) == Min(n, QuestionCap)

\* GEMINI_QUIZ_PROMPT.format(...): the texts that fill {source_text} and
\* {num_questions}.
FormatPrompt(src, n) ==
    [source_text |-> PyStr(src), num_questions |-> IntStr(CappedCount(n))]

\* f"AI Quiz - {min(num_questions, 20)} Questions"
DocTitle(n) == TitlePrefix \o IntStr(CappedCount(n)) \o TitleSuffix

\* The except clause of lines 203-205.  Its print reads `response`, which
\* is unbound when generate_content itself raised: the UnboundLocalError
\* leaves the handler before the return is reached.
GenerationExcept(response_bound) ==
    IF response_bound THEN JsonError(500, ErrGeneration, 0) ELSE UnhandledError

\* Variant of ExportExcept: the message of the generation step is reused.
ExportExceptGenerationMessage(err) == JsonError(500, ErrGeneration, 0)

\* The except clauses of lines 233-239, for an HttpError with a status
\* and for any other exception.
ExportExcept(err) ==
    IF err.http THEN JsonError(500, ErrDocsHttp, err.status)
    ELSE JsonError(500, ErrDocsExport, 0)

\* The errors a document-API call may raise.
ApiErrors ==
    {[http |-> TRUE, status |-> 403], [http |-> FALSE, status |-> 0]}

\* The ids the document service assigns.
DocumentIds == {<<"d", "1">>, <<"d", "2">>}

Init ==
    /\ gemini_client \in {"Client", "None"}
    /\ pc = "Idle"
    /\ body = [json |-> FALSE, data |-> JNull]
    /\ source_text = JNull
    /\ num_questions = 0
    /\ prompt = [source_text |-> <<>>, num_questions |-> <<>>]
    /\ response_text = <<>>
    /\ quiz_data = JNull
    /\ doc_content = <<>>
    /\ doc_id = <<>>
    /\ calls = <<>>
    /\ documents = <<>>
    /\ raised = ""
    /\ http = NoResponse

\* An exception raised at a step ends the handler with a response.
Fail(step, response) ==
    /\ pc' = "Failed"
    /\ raised' = step
    /\ http' = response

\* Variant of ClientUnavailable: the body is validated before the client is
\* looked at, so a bad body is answered 400.
ClientCheckedAfterInput(b) ==
    /\ pc = "Idle"
    /\ gemini_client = "None"
    /\ body' = b
    /\ IF ParseInput(b).ok THEN Fail("gemini_client", JsonError(500, ErrClient, 0))
       ELSE Fail("request", JsonError(400, ErrInput, 0))
    /\ UNCHANGED <<gemini_client, source_text, num_questions, prompt,
                   response_text, quiz_data, doc_content, doc_id, calls, documents>>

\* Lines 172-173: no client, whatever the body.
ClientUnavailable(b) ==
    /\ pc = "Idle"
    /\ gemini_client = "None"
    /\ body' = b
    /\ Fail("gemini_client", JsonError(500, ErrClient, 0))
    /\ UNCHANGED <<gemini_client, source_text, num_questions, prompt,
                   response_text, quiz_data, doc_content, doc_id, calls, documents>>

\* Lines 175-180: the body cannot be read.
InvalidInput(b) ==
    /\ pc = "Idle"
    /\ gemini_client # "None"
    /\ ~ParseInput(b).ok
    /\ body' = b
    /\ Fail("request", JsonError(400, ErrInput, 0))
    /\ UNCHANGED <<gemini_client, source_text, num_questions, prompt,
                   response_text, quiz_data, doc_content, doc_id, calls, documents>>

\* Lines 175-186: the body is read and the prompt is built.
BuildPrompt(b) ==
    /\ pc = "Idle"
    /\ gemini_client # "None"
    /\ ParseInput(b).ok
    /\ body' = b
    /\ source_text' = ParseInput(b).source_text
    /\ num_questions' = ParseInput(b).num_questions
    /\ prompt' = FormatPrompt(ParseInput(b).source_text, ParseInput(b).num_questions)
    /\ pc' = "Generating"
    /\ UNCHANGED <<gemini_client, response_text, quiz_data, doc_content, doc_id,
                   calls, documents, http, raised>>

\* Lines 190-193 and 203-205: generate_content raises.
GenerateRaises ==
    /\ pc = "Generating"
    /\ calls' = Append(calls, "generate_content")
    /\ Fail("generate_content", GenerationExcept(FALSE))
    /\ UNCHANGED <<gemini_client, body, source_text, num_questions, prompt,
                   response_text, quiz_data, doc_content, doc_id, documents>>

\* Lines 190-193: generate_content returns a response with a text.
GenerateReturns(text) ==
    /\ pc = "Generating"
    /\ calls' = Append(calls, "generate_content")
    /\ response_text' = text
    /\ pc' = "Extracting"
    /\ UNCHANGED <<gemini_client, body, source_text, num_questions, prompt,
                   quiz_data, doc_content, doc_id, documents, http, raised>>

\* Variant of ExtractFails: the parse error is swallowed and the handler
\* goes on with an empty quiz_data.
ExtractFailsContinues ==
    /\ pc = "Extracting"
    /\ ~JsonLoads(JsonSpan(response_text)).ok
    /\ quiz_data' = JObj(<<>>)
    /\ pc' = "Formatting"
    /\ UNCHANGED <<gemini_client, body, source_text, num_questions, prompt,
                   response_text, doc_content, doc_id, calls, documents, http, raised>>

\* Lines 197-205: json.loads raises on the span between the braces.
ExtractFails ==
    /\ pc = "Extracting"
    /\ ~JsonLoads(JsonSpan(response_text)).ok
    /\ Fail("json.loads", GenerationExcept(TRUE))
    /\ UNCHANGED <<gemini_client, body, source_text, num_questions, prompt,
                   response_text, quiz_data, doc_content, doc_id, calls, documents>>

\* Lines 197-201: the span between the braces parses.
ExtractReturns ==
    /\ pc = "Extracting"
    /\ JsonLoads(JsonSpan(response_text)).ok
    /\ quiz_data' = JsonLoads(JsonSpan(response_text)).val
    /\ pc' = "Formatting"
    /\ UNCHANGED <<gemini_client, body, source_text, num_questions, prompt,
                   response_text, doc_content, doc_id, calls, documents, http, raised>>

\* Lines 208-222: a loop raises, and nothing catches it.
FormatRaises ==
    /\ pc = "Formatting"
    /\ ~FormatDocument(quiz_data).ok
    /\ Fail("format", UnhandledError)
    /\ UNCHANGED <<gemini_client, body, source_text, num_questions, prompt,
                   response_text, quiz_data, doc_content, doc_id, calls, documents>>

\* Lines 208-222: doc_content is built.
FormatReturns ==
    /\ pc = "Formatting"
    /\ FormatDocument(quiz_data).ok
    /\ doc_content' = FormatDocument(quiz_data).text
    /\ pc' = "Publishing"
    /\ UNCHANGED <<gemini_client, body, source_text, num_questions, prompt,
                   response_text, quiz_data, doc_id, calls, documents, http, raised>>

\* Line 226 and 237-239: get_google_docs_service raises.
GetServiceRaises ==
    /\ pc = "Publishing"
    /\ calls' = Append(calls, "get_google_docs_service")
    /\ Fail("get_google_docs_service", ExportExcept([http |-> FALSE, status |-> 0]))
    /\ UNCHANGED <<gemini_client, body, source_text, num_questions, prompt,
                   response_text, quiz_data, doc_content, doc_id, documents>>

\* Line 226: get_google_docs_service returns the service.  (Whether line 70
\* finds its credentials is decided by the installed libraries and the
\* hosting environment; both outcomes are kept.)
GetServiceReturns ==
    /\ pc = "Publishing"
    /\ calls' = Append(calls, "get_google_docs_service")
    /\ pc' = "Creating"
    /\ UNCHANGED <<gemini_client, body, source_text, num_questions, prompt,
                   response_text, quiz_data, doc_content, doc_id, documents, http, raised>>

\* Line 80 and 233-239: documents.create raises.
CreateRaises(err) ==
    /\ pc = "Creating"
    /\ calls' = Append(calls, "documents.create")
    /\ Fail("documents.create", ExportExcept(err))
    /\ UNCHANGED <<gemini_client, body, source_text, num_questions, prompt,
                   response_text, quiz_data, doc_content, doc_id, documents>>

\* Lines 80-81: documents.create makes an empty document with the title.
CreateReturns(id) ==
    /\ pc = "Creating"
    /\ calls' = Append(calls, "documents.create")
    /\ documents' = Append(documents, [documentId |-> id,
                                       title |-> DocTitle(num_questions),
                                       content |-> <<>>])
    /\ doc_id' = id
    /\ pc' = "Updating"
    /\ UNCHANGED <<gemini_client, body, source_text, num_questions, prompt,
                   response_text, quiz_data, doc_content, http, raised>>

\* Line 95 and 233-239: documents.batchUpdate raises; the document stays.
BatchUpdateRaises(err) ==
    /\ pc = "Updating"
    /\ calls' = Append(calls, "documents.batchUpdate")
    /\ Fail("documents.batchUpdate", ExportExcept(err))
    /\ UNCHANGED <<gemini_client, body, source_text, num_questions, prompt,
                   response_text, quiz_data, doc_content, doc_id, documents>>

\* Lines 95-97 and 231: the text is inserted and the URL is returned.
BatchUpdateReturns ==
    /\ pc = "Updating"
    /\ calls' = Append(calls, "documents.batchUpdate")
    /\ documents' = [i \in 1..Len(documents) |->
                        IF documents[i].documentId = doc_id
                        THEN [documents[i] EXCEPT !.content = doc_content]
                        ELSE documents[i]]
    /\ pc' = "Done"
    /\ http' = JsonSuccess(UrlPrefix \o doc_id \o UrlSuffix)
    /\ UNCHANGED <<gemini_client, body, source_text, num_questions, prompt,
                   response_text, quiz_data, doc_content, doc_id, raised>>

Next ==
    \/ \E b \in RequestBodies : ClientUnavailable(b)
    \/ \E b \in RequestBodies : InvalidInput(b)
    \/ \E b \in RequestBodies : BuildPrompt(b)
    \/ GenerateRaises
    \/ \E text \in ModelOutputs : GenerateReturns(text)
    \/ ExtractFails
    \/ ExtractReturns
    \/ FormatRaises
    \/ FormatReturns
    \/ GetServiceRaises
    \/ GetServiceReturns
    \/ \E err \in ApiErrors : CreateRaises(err)
    \/ \E id \in DocumentIds : CreateReturns(id)
    \/ \E err \in ApiErrors : BatchUpdateRaises(err)
    \/ BatchUpdateReturns

Spec == Init /\ [][Next]_vars

\* ------------------------------------------------------------------------
\* Properties
\* ------------------------------------------------------------------------

\* The calls of the Document Publisher.
PublisherCalls ==
    {"get_google_docs_service", "documents.create", "documents.batchUpdate"}

\* An external call was made during the request.
Called(op) == \E i \in 1..Len(calls) : calls[i] = op

\* How often an external call was made during the request.
CallCount(op) == Cardinality({i \in 1..Len(calls) : calls[i] = op})

\* The position of the first call of op in the log (0 when never called).
CallIndex(op) ==
    IF Called(op) THEN CHOOSE i \in 1..Len(calls) :
                           calls[i] = op /\ \A j \in 1..(i - 1) : calls[j] # op
    ELSE 0

PublisherInvoked == \E op \in PublisherCalls : Called(op)

\* The request has been answered.
Responded == pc \in {"Done", "Failed"}

\* C1: when generate_content raises, the response is status 500 with a
\* JSON body carrying an "error" field, and no Document Publisher
\* operation is invoked for the request.
C1_GenerationErrorIsJson500 ==
    raised = "generate_content" =>
        /\ http.status = 500
        /\ http.json
        /\ http.error # ""
        /\ ~PublisherInvoked

\* C2: documents.create is called only after generate_content returned and
\* its output parsed; documents.batchUpdate only after documents.create
\* succeeded; and the 200 success response (Done) only after generation,
\* parse, create and batchUpdate all succeeded, in that order.
C2_PublishAfterGeneration ==
    /\ PublisherInvoked =>
          LET parsed == JsonLoads(JsonSpan(response_text))
          IN  /\ CallIndex("generate_content") = 1
              /\ parsed.ok
              /\ parsed.val = quiz_data
              /\ raised \notin {"generate_content", "json.loads", "format"}
    /\ Called("documents.create") =>
          CallIndex("get_google_docs_service") = CallIndex("documents.create") - 1
    /\ Called("documents.batchUpdate") =>
          /\ CallIndex("documents.create") = CallIndex("documents.batchUpdate") - 1
          /\ raised # "documents.create"
          /\ Len(documents) = 1
          /\ documents[1].documentId = doc_id
    /\ (pc = "Done" \/ http.status = 200 \/ http.success) =>
          /\ pc = "Done"
          /\ raised = ""
          /\ http.status = 200 /\ http.json /\ http.success
          /\ http.doc_url # <<>>
          /\ calls = <<"generate_content", "get_google_docs_service",
                       "documents.create", "documents.batchUpdate">>
          /\ documents[1].content = doc_content

\* C2's case: a request that ended with the 200 success response.
C2_Witness == pc = "Done" /\ http.status = 200 /\ http.success

\* C3: without a generation client every request, whatever its body, is
\* answered 500 with a JSON error, before the body is looked at, and no
\* generation or document call is made.
C3_NoClientAlways500 ==
    gemini_client = "None" =>
        /\ pc \in {"Idle", "Failed"}
        /\ calls = <<>>
        /\ documents = <<>>
        /\ pc = "Failed" =>
              /\ http.status = 500
              /\ http.json
              /\ http.error = ErrClient
              /\ raised = "gemini_client"

\* C3's case: a body that cannot be read, answered 500 for lack of a client.
C3_Witness ==
    /\ gemini_client = "None"
    /\ pc = "Failed"
    /\ ~ParseInput(body).ok
    /\ http.status = 500

\* The request body is a JSON object.
BodyIsObject == body.json /\ body.data.t = "obj"

\* The texts int() reads as an integer: a decimal number up to MaxNum,
\* with or without a sign, with or without a blank on either side.
IntegerTexts ==
    {l \o sg \o NatStr(n) \o r :
        l \in {<<>>, <<" ">>}, r \in {<<>>, <<" ">>},
        sg \in {<<>>, <<"+">>, <<"-">>}, n \in 0..MaxNum}

\* int() converts the value.
Convertible(v) == v.t \in {"int", "bool"} \/ (v.t = "str" /\ v.s \in IntegerTexts)

\* A required field is missing from the body.
MissingField ==
    /\ BodyIsObject
    /\ ~HasKey(body.data, KeySourceText) \/ ~HasKey(body.data, KeyNumQuestions)

\* The body is no JSON object, or its num_questions cannot be converted.
Unparsable ==
    \/ ~BodyIsObject
    \/ /\ HasKey(body.data, KeyNumQuestions)
       /\ ~Convertible(Lookup(body.data, KeyNumQuestions))

\* C4 as stated: a body with a missing field or an unparsable field is
\* answered 400 with a JSON error without a generation call, and
\* generation starts only with source_text present and num_questions
\* parseable.
C4_MissingFieldIs400 ==
    (gemini_client = "Client" /\ pc # "Idle") =>
        /\ (MissingField \/ Unparsable) =>
              /\ http.status = 400
              /\ http.json
              /\ http.error # ""
              /\ ~Called("generate_content")
        /\ raised # "request" =>
              /\ ~MissingField
              /\ ~Unparsable

\* C4, amended: with a client, the answer is 400 with a JSON error and no
\* generation call exactly when the body is no JSON object or its
\* num_questions is present and not convertible to an integer; a missing
\* source_text is read as '' and a missing num_questions as 10, and the
\* request goes on to generation.
C4_UnparsableIs400 ==
    (gemini_client = "Client" /\ pc # "Idle") =>
        /\ Unparsable =>
              /\ pc = "Failed"
              /\ raised = "request"
              /\ http.status = 400
              /\ http.json
              /\ http.error = ErrInput
              /\ calls = <<>>
        /\ ~Unparsable =>
              /\ raised # "request"
              /\ http.status # 400
              /\ pc = "Generating" \/ Called("generate_content")
              /\ ~HasKey(body.data, KeySourceText) =>
                    source_text = JStr(<<>>) /\ prompt.source_text = <<>>
              /\ ~HasKey(body.data, KeyNumQuestions) => num_questions = 10

\* C4's case: a body with neither field, on its way to generation.
C4_Witness ==
    /\ gemini_client = "Client"
    /\ BodyIsObject
    /\ ~HasKey(body.data, KeySourceText)
    /\ ~HasKey(body.data, KeyNumQuestions)
    /\ pc = "Generating"

\* The handler has read the body and built the prompt.
PromptBuilt == pc # "Idle" /\ raised \notin {"gemini_client", "request"}

\* C5: the count in the prompt and the count in the document title are
\* both min(num_questions, 20): above 20 they are 20, and a count below 1
\* passes unchanged to both.
C5_CountCappedAt20 ==
    PromptBuilt =>
        LET count == IF num_questions > 20 THEN 20 ELSE num_questions
        IN  /\ BodyIsObject
            /\ (HasKey(body.data, KeyNumQuestions)
                  /\ Lookup(body.data, KeyNumQuestions).t = "int") =>
                    num_questions = Lookup(body.data, KeyNumQuestions).n
            /\ prompt.num_questions = IntStr(count)
            /\ \A i \in 1..Len(documents) :
                  documents[i].title = TitlePrefix \o IntStr(count) \o TitleSuffix

\* C5's case: a document titled for a request of more than 20 questions.
C5_Witness ==
    /\ PromptBuilt
    /\ num_questions > 20
    /\ Len(documents) = 1
    /\ prompt.num_questions = <<"2", "0">>

\* generate_content returned a text.
GenerationReturned == Called("generate_content") /\ raised # "generate_content"

\* The text holds no '{'.
NoOpenBrace(text) == \A i \in 1..Len(text) : text[i] # "{"

\* C6: for a model text without '{', with or without '}', the span taken
\* from it is never JSON (it is empty or a lone '}'), the request ends with
\* the 500 generation/parsing error, and the publisher is not invoked.
C6_NoBraceFails ==
    (GenerationReturned /\ NoOpenBrace(response_text)) =>
        /\ pc \in {"Extracting", "Failed"}
        /\ JsonSpan(response_text) \in {<<>>, <<"}">>}
        /\ pc = "Failed" =>
              /\ raised = "json.loads"
              /\ http.status = 500
              /\ http.json
              /\ http.error = ErrGeneration
        /\ ~PublisherInvoked
        /\ documents = <<>>

\* C6's case: a text with '}' and no '{', answered with the parsing error.
C6_Witness ==
    /\ GenerationReturned
    /\ NoOpenBrace(response_text)
    /\ \E i \in 1..Len(response_text) : response_text[i] = "}"
    /\ pc = "Failed"
    /\ http.error = ErrGeneration

\* A QuizItem: id, type and question, and options, when present, a list
\* of strings.
IsQuizItem(v) ==
    /\ v.t = "obj"
    /\ HasKey(v, KeyId) /\ Lookup(v, KeyId).t = "int"
    /\ HasKey(v, KeyType)
    /\ Lookup(v, KeyType) \in {JStr(TypeMC), JStr(<<"T", "F">>), JStr(<<"S", "A">>)}
    /\ HasKey(v, KeyQuestion) /\ Lookup(v, KeyQuestion).t = "str"
    /\ HasKey(v, KeyOptions) =>
          /\ Lookup(v, KeyOptions).t = "arr"
          /\ \A i \in 1..Len(Lookup(v, KeyOptions).kids) :
                Lookup(v, KeyOptions).kids[i].t = "str"

\* An AnswerItem: id and correct_answer.
IsAnswerItem(v) ==
    /\ v.t = "obj"
    /\ HasKey(v, KeyId) /\ Lookup(v, KeyId).t = "int"
    /\ HasKey(v, KeyCorrectAnswer) /\ Lookup(v, KeyCorrectAnswer).t = "str"

\* A list of QuizItems.
IsQuizList(v) == v.t = "arr" /\ \A i \in 1..Len(v.kids) : IsQuizItem(v.kids[i])

\* A list of AnswerItems.
IsAnswerList(v) == v.t = "arr" /\ \A i \in 1..Len(v.kids) : IsAnswerItem(v.kids[i])

\* A structurally valid QuizDocument.
IsQuizDocument(v) ==
    /\ v.t = "obj"
    /\ HasKey(v, KeyQuiz) /\ IsQuizList(Lookup(v, KeyQuiz))
    /\ HasKey(v, KeyAnswers) /\ IsAnswerList(Lookup(v, KeyAnswers))

\* The model output parsed, and the handler is past the formatting step.
Formatted ==
    /\ quiz_data.t = "obj"
    /\ pc \in {"Publishing", "Creating", "Updating", "Done", "Failed"}

\* The parsed object lacks "quiz" or "answers".
LacksKey == ~HasKey(quiz_data, KeyQuiz) \/ ~HasKey(quiz_data, KeyAnswers)

\* What the parsed object does hold under "quiz" and "answers" is valid.
PresentKeysValid ==
    /\ HasKey(quiz_data, KeyQuiz) => IsQuizList(Lookup(quiz_data, KeyQuiz))
    /\ HasKey(quiz_data, KeyAnswers) => IsAnswerList(Lookup(quiz_data, KeyAnswers))

\* C7 as stated: a parsed object without "quiz" or "answers" ends the
\* request with the 500 generation/parsing error, and no document is
\* created or published.
C7_MissingKeyFails ==
    (Formatted /\ LacksKey) =>
        /\ pc = "Failed"
        /\ http.status = 500
        /\ http.error = ErrGeneration
        /\ ~PublisherInvoked
        /\ documents = <<>>

\* C7, amended: a parsed object without "quiz" or "answers" never ends the
\* request with the generation/parsing error; the missing key is read as
\* an empty list, and when what the object does hold is valid the text is
\* built with that section empty and handed to the publisher.
C7_MissingKeyIsEmptyList ==
    (Formatted /\ LacksKey) =>
        /\ raised # "json.loads"
        /\ http.error # ErrGeneration
        /\ raised = "format" => ~PresentKeysValid
        /\ raised # "format" =>
              /\ pc = "Publishing" \/ PublisherInvoked
              /\ ~HasKey(quiz_data, KeyQuiz) =>
                    SubSeq(doc_content, 1,
                           Len(DocHeader \o QuestionsHeader \o AnswerKeyHeader))
                        = DocHeader \o QuestionsHeader \o AnswerKeyHeader
              /\ ~HasKey(quiz_data, KeyAnswers) =>
                    SubSeq(doc_content, Len(doc_content) - Len(AnswerKeyHeader) + 1,
                           Len(doc_content)) = AnswerKeyHeader

\* C7's case: a document published from an object that lacks a key.
C7_Witness ==
    /\ Formatted
    /\ LacksKey
    /\ pc = "Done"
    /\ Len(documents) = 1
    /\ documents[1].content = doc_content

\* C8: when a document-API step fails after generation and parsing, the
\* response is 500 with a JSON error that is not the generation error; the
\* failed call is the last one, every call is made at most once, nothing
\* is deleted, and a document created before a failed batchUpdate stays,
\* empty.
C8_PublishFailureIsDistinct ==
    /\ \A op \in PublisherCalls \cup {"generate_content"} : CallCount(op) <= 1
    /\ \A i \in 1..Len(calls) : calls[i] \in PublisherCalls \cup {"generate_content"}
    /\ raised \in PublisherCalls =>
          /\ pc = "Failed"
          /\ http.status = 500
          /\ http.json
          /\ ~http.success
          /\ http.error \notin {"", ErrGeneration, ErrClient, ErrInput}
          /\ calls[Len(calls)] = raised
          /\ calls[1] = "generate_content"
          /\ quiz_data.t = "obj"
          /\ raised = "documents.batchUpdate" =>
                /\ Len(documents) = 1
                /\ documents[1].documentId = doc_id
                /\ documents[1].content = <<>>
          /\ raised # "documents.batchUpdate" => documents = <<>>

\* C8's case: batchUpdate failed and the created document is left empty.
C8_Witness ==
    /\ raised = "documents.batchUpdate"
    /\ Len(documents) = 1
    /\ documents[1].content = <<>>
    /\ http.status = 500

\* The span between the braces parsed as JSON.
ParseSucceeded ==
    /\ pc \notin {"Idle", "Generating", "Extracting"}
    /\ raised \notin {"gemini_client", "request", "generate_content", "json.loads"}

\* C9: once the span parses, the formatting step cannot fail, whatever the
\* items hold: the publisher is invoked and the request ends with a JSON
\* response.
C9_FormattingNeverFails ==
    ParseSucceeded =>
        /\ raised # "format"
        /\ pc # "Formatting" => (pc = "Publishing" \/ PublisherInvoked)
        /\ Responded => (http.json /\ (http.success \/ http.error # ""))

RECURSIVE SplitLines(_)
\* text.split("\n")
SplitLines(text) ==
    IF Find(text, "\n") = -1 THEN <<text>>
    ELSE <<SubSeq(text, 1, Find(text, "\n"))>>
         \o SplitLines(SubSeq(text, Find(text, "\n") + 2, Len(text)))

\* The lines of a text that are not empty.
NonBlankLines(text) == SelectSeq(SplitLines(text), LAMBDA l : l # <<>>)

\* "<id>. (<type>) <question>"
QuestionLine(item) ==
    IntStr(Lookup(item, KeyId).n) \o <<".", " ", "(">> \o Lookup(item, KeyType).s
        \o <<")", " ">> \o Lookup(item, KeyQuestion).s

\* The option lines of an item: its options when it is MC and has some.
ItemOptionLines(item) ==
    IF Lookup(item, KeyType).s = <<"M", "C">> /\ HasKey(item, KeyOptions)
    THEN [i \in 1..Len(Lookup(item, KeyOptions).kids) |->
             <<" ", " ", " ", " ", "-", " ">> \o Lookup(item, KeyOptions).kids[i].s]
    ELSE <<>>

\* "<id>. <correct_answer>"
AnswerLine(item) ==
    IntStr(Lookup(item, KeyId).n) \o <<".", " ">> \o Lookup(item, KeyCorrectAnswer).s

RECURSIVE QuestionLines(_)
\* Each item's question line with its option lines under it, in order.
QuestionLines(items) ==
    IF items = <<>> THEN <<>>
    ELSE <<QuestionLine(Head(items))>> \o ItemOptionLines(Head(items))
         \o QuestionLines(Tail(items))

\* The layout of a QuizDocument: the QUESTIONS section, then the ANSWER
\* KEY section, each in the order of its input sequence.
LayoutLines(doc) ==
    NonBlankLines(DocHeader \o QuestionsHeader)
    \o QuestionLines(Lookup(doc, KeyQuiz).kids)
    \o NonBlankLines(AnswerKeyHeader)
    \o [i \in 1..Len(Lookup(doc, KeyAnswers).kids) |->
           AnswerLine(Lookup(doc, KeyAnswers).kids[i])]

\* C10: for a structurally valid QuizDocument the text has the QUESTIONS
\* section before the ANSWER KEY section, the question lines and the
\* answer lines in input order, and option lines directly under the
\* question line exactly for the MC items that have options.
C10_FormatterLayout ==
    (Formatted /\ IsQuizDocument(quiz_data)) =>
        /\ raised # "format"
        /\ NonBlankLines(doc_content) = LayoutLines(quiz_data)

\* C10's case: two items with ids 2, 1, the first not MC but with options.
C10_Witness ==
    /\ Formatted
    /\ IsQuizDocument(quiz_data)
    /\ Len(Lookup(quiz_data, KeyQuiz).kids) = 2
    /\ Lookup(Lookup(quiz_data, KeyQuiz).kids[1], KeyId).n = 2
    /\ Lookup(Lookup(quiz_data, KeyQuiz).kids[1], KeyType).s # <<"M", "C">>
    /\ HasKey(Lookup(quiz_data, KeyQuiz).kids[1], KeyOptions)
    /\ Len(Lookup(quiz_data, KeyAnswers).kids) = 2
    /\ doc_content # <<>>

====
